---- MODULE Spec2Model ----
(***************************************************************************)
(* The frontend of the no-code stack builder: App navigation (App.js,      *)
(* Home.js, NewStack.js), the StackBuilder page with its Save and Run      *)
(* handlers, and the ChatBox modal.  Both ChatBox.handleSend and           *)
(* StackBuilder.handleRun read the NDJSON response of POST /execute chunk  *)
(* by chunk; the response text is modelled as a sequence of lexical units  *)
(* (braces, fields, whitespace, newline), a wide unit travelling as two    *)
(* bytes, and the network may cut it between any two bytes.                *)
(***************************************************************************)
EXTENDS Naturals, Sequences, FiniteSets, TLC

\* Most lines of one response body.
MaxLines == 3

(***************************************************************************)
(* Text.  A unit of text is a record [k, v]: "{" and "}", one field of a   *)
(* JSON object, a whitespace character, a newline, or a character that     *)
(* belongs to no JSON value.                                               *)
(***************************************************************************)
Sym(k, v) == [k |-> k, v |-> v]

LB == Sym("lb", "{")

RB == Sym("rb", "}")

NL == Sym("nl", "\n")

\* U+0020: whitespace for JSON.parse and for String.prototype.trim.
SP == Sym("ws", " ")

\* U+00A0: whitespace for String.prototype.trim, not for JSON.parse.
NBSP == Sym("ws", "nbsp")

\* U+FFFD and any other character no JSON text contains outside a string.
JUNK == Sym("junk", "?")

TypeF(t) == Sym("type", t)

MsgF(m) == Sym("message", m)

ExtraF == Sym("extra", "1")

\* The value of a property the object does not have.
Undefined == "<undefined>"

\* String(v): what "" + v is.
ToStr(v) == IF v = Undefined THEN "undefined" ELSE v

\* The cross mark the clients put in front of an error text.
Cross == "[x] "

\* The placeholder text of the temporary assistant bubble.
Ellipsis == "..."

(***************************************************************************)
(* The response body: README "Streaming NDJSON format" and the event list  *)
(* of POST /execute.  A line is described by what the backend meant to     *)
(* write; LineText is its text.                                            *)
(***************************************************************************)
EventKinds == {"status", "context", "token", "output", "error", "done"}

Line(kind, type, message) == [kind |-> kind, type |-> type, message |-> message]

Event(type, message) == Line("event", type, message)

\* The six event kinds of the contract, one message each (two for token).
Events ==
    { Event("token", "a"), Event("token", "b"), Event("output", "o"),
      Event("error", "e"), Event("status", "s"), Event("context", "c"),
      Event("done", "d") }

\* A record of a kind this client does not know.
FutureLines == { Event("future", "f") }

\* A known-kind record with one more top-level field.
ExtraLines == { Line("extra", "token", "a") }

\* A JSON object with a type and no message.
NoMsgLines == { Line("nomsg", "token", Undefined) }

\* Text that is no JSON value, an empty line of spaces, and a record behind
\* a no-break space.
OtherLines ==
    { Line("junk", "", ""), Line("blank", "", ""), Line("nbsp", "token", "b") }

\* The lines of a response body.  "contract": the backend keeps the contract.
\* "truncated": it does, and the body may end early.  "loose": it also writes
\* lines that are outside the contract.
LinesOf(p) ==
    CASE p = "contract"  -> Events
      [] p = "truncated" -> { Event("token", "a"), Event("output", "o"),
                              Event("error", "e"), Event("done", "d") }
      [] p = "loose"     -> { Event("token", "a"), Event("token", "b") }
                            \cup FutureLines \cup ExtraLines \cup NoMsgLines
                            \cup OtherLines
      [] p = "turns"     -> { Event("token", "a"), Event("output", "o"),
                              Event("error", "e") }
      [] p = "overlap"   -> { Event("token", "a"), Event("output", "o") }

\* json.dumps of one event: {"type": t, "message": m}.
Encode(type, message) == <<LB, TypeF(type), MsgF(message), RB>>

LineText(d) ==
    CASE d.kind = "event" -> Encode(d.type, d.message)
      [] d.kind = "extra" -> <<LB, TypeF(d.type), MsgF(d.message), ExtraF, RB>>
      [] d.kind = "nomsg" -> <<LB, TypeF(d.type), RB>>
      [] d.kind = "junk"  -> <<LB, TypeF("token"), JUNK>>
      [] d.kind = "blank" -> <<SP>>
      [] d.kind = "nbsp"  -> <<NBSP>> \o Encode(d.type, d.message)

(***************************************************************************)
(* UTF-8.  The message "b" stands for a text of one two-byte character:    *)
(* its field travels as two bytes, every other unit as one.                *)
(***************************************************************************)
Wide(c) == c = MsgF("b")

Hi(c) == Sym("hi", c.v)

Lo(c) == Sym("lo", c.v)

RECURSIVE UTF8(_)
UTF8(s) ==
    IF s = <<>> THEN <<>>
    ELSE (IF Wide(Head(s)) THEN <<Hi(Head(s)), Lo(Head(s))>> ELSE <<Head(s)>>)
         \o UTF8(Tail(s))

\* TextDecoder.decode(value, {stream: true}) on the bytes held over from the
\* last call followed by this chunk: the text decoded, and the bytes of an
\* incomplete character held over for the next call.
RECURSIVE DecodeFrom(_, _)
DecodeFrom(bytes, out) ==
    IF bytes = <<>> THEN [text |-> out, held |-> <<>>]
    ELSE LET b == Head(bytes) IN
         IF b.k = "hi"
         THEN IF Len(bytes) = 1 THEN [text |-> out, held |-> bytes]
              ELSE IF bytes[2] = Sym("lo", b.v)
                   THEN DecodeFrom(Tail(Tail(bytes)), Append(out, MsgF(b.v)))
                   ELSE DecodeFrom(Tail(bytes), Append(out, JUNK))
         ELSE IF b.k = "lo" THEN DecodeFrom(Tail(bytes), Append(out, JUNK))
         ELSE DecodeFrom(Tail(bytes), Append(out, b))

\* The same call without {stream: true}: an incomplete character at the end
\* of the chunk is replaced by U+FFFD and nothing is held over.
DecodeNoStream(held, value) ==
    LET r == DecodeFrom(value, <<>>) IN
    [text |-> r.text \o (IF r.held = <<>> THEN <<>> ELSE <<JUNK>>), held |-> <<>>]

Decode(held, value) == DecodeFrom(held \o value, <<>>)

(***************************************************************************)
(* String.prototype.split("\n"), String.prototype.trim and JSON.parse.     *)
(***************************************************************************)
\* The pieces of s between its newlines: one more than it has newlines.
RECURSIVE SplitFrom(_, _, _)
SplitFrom(s, cur, acc) ==
    IF s = <<>> THEN Append(acc, cur)
    ELSE IF Head(s) = NL THEN SplitFrom(Tail(s), <<>>, Append(acc, cur))
    ELSE SplitFrom(Tail(s), Append(cur, Head(s)), acc)

Split(s) == SplitFrom(s, <<>>, <<>>)

\* parts.pop(): the pieces but the last.
Front(p) == SubSeq(p, 1, Len(p) - 1)

\* A loop that starts every chunk with an empty buffer.
LastDropped(p) == <<>>

Last(p) == p[Len(p)]

IsTrimSpace(c) == c.k = "ws"

IsJSONSpace(c) == c = SP

RECURSIVE TrimLeft(_)
TrimLeft(s) ==
    IF s # <<>> /\ IsTrimSpace(Head(s)) THEN TrimLeft(Tail(s)) ELSE s

RECURSIVE TrimRight(_)
TrimRight(s) ==
    IF s # <<>> /\ IsTrimSpace(s[Len(s)]) THEN TrimRight(SubSeq(s, 1, Len(s) - 1))
    ELSE s

Trim(s) == TrimRight(TrimLeft(s))

\* The value of property k of the object whose fields are fs: the last one
\* written wins, and a property not written is undefined.
Field(fs, k) ==
    LET at == {i \in 1..Len(fs) : fs[i].k = k} IN
    IF at = {} THEN Undefined
    ELSE fs[CHOOSE i \in at : \A j \in at : j <= i].v

\* A parser that takes nothing but {"type": ..., "message": ...}.
JSONParseStrict(s) ==
    LET t == SelectSeq(s, LAMBDA c : ~IsJSONSpace(c)) IN
    IF Len(t) = 4 /\ t[1] = LB /\ t[2].k = "type" /\ t[3].k = "message" /\ t[4] = RB
    THEN [ok |-> TRUE, type |-> t[2].v, message |-> t[3].v]
    ELSE [ok |-> FALSE, type |-> Undefined, message |-> Undefined]

\* JSON.parse(s): the object, or ok = FALSE where it throws SyntaxError.
\* Whitespace between the tokens of a JSON text is insignificant.
JSONParse(s) ==
    LET t == SelectSeq(s, LAMBDA c : ~IsJSONSpace(c))
        fs == SubSeq(t, 2, Len(t) - 1)
    IN  IF /\ Len(t) >= 2
           /\ t[1] = LB
           /\ t[Len(t)] = RB
           /\ \A i \in 1..Len(fs) : fs[i].k \in {"type", "message", "extra"}
        THEN [ok |-> TRUE, type |-> Field(fs, "type"), message |-> Field(fs, "message")]
        ELSE [ok |-> FALSE, type |-> Undefined, message |-> Undefined]

(***************************************************************************)
(* State.                                                                  *)
(***************************************************************************)
VARIABLES
    profile,       \* the backend: "contract", "truncated" or "loose" (LinesOf)
    currentPage,   \* App: "home", "newstack" or "builder"
    activeStack,   \* App: what StackBuilder receives as its stack prop
    alert,         \* the window.alert dialog on screen, "" when none
    chatOpen,      \* StackBuilder: the ChatBox modal is mounted
    history,       \* StackBuilder: data.history of the output node
    messages,      \* ChatBox: the bubbles
    input,         \* ChatBox: the text typed
    running,       \* ChatBox: a request is in flight
    client,        \* whose request was issued last: "none", "chat" or "run"
    pc,            \* where that handler is: "idle", "fetching", "reading",
                   \* "done" (the stream is read to its end and the remainder
                   \* handled; the locals are still there), "returned" or
                   \* "failed" (returned without reading the body to its end)
    snap,          \* handleRun: outputNode.data.history as the closure holds it;
                   \* handleSend: the messages of the render the call came from
    buffer,        \* the handler's buffer
    held,          \* the TextDecoder's bytes of an incomplete character
    assistant,     \* assistantText (ChatBox) or assistantMsg (handleRun)
    dispatched,    \* history: the events the handler parsed and acted on
    parsed,        \* history: the lines the read loop handed to JSON.parse
    sent,          \* history: the lines of the response body
    ending,        \* history: how the body ends, see Endings
    complete,      \* history: how many newlines the client has read
    wire,          \* the bytes of the body the client has not read yet
    requests,      \* execute requests issued since the page was mounted
    second,        \* a handleRun started while the first still reads: its
                   \* place, closure, locals and response body
    graph,         \* engine: the Graph of the execution request
    path,          \* engine: the ExecutionPath as far as it is resolved
    rstate,        \* resolver: "idle", "walking", "resolved" or "failed"
    rerror,        \* resolver: the message of its StructuralError, "" when none
    gstate,        \* streamer: "idle", "streaming", "completed" or "failed"
    feed,          \* streamer: what the generative backend has yet to report
    emitted        \* streamer: the StreamEvents emitted, in order

app == <<currentPage, activeStack, alert>>

builder == <<chatOpen, history>>

chat == <<messages, input, running>>

handler == <<client, pc, snap, buffer, held, assistant, dispatched, parsed>>

net == <<sent, ending, complete, wire>>

engine == <<graph, path, rstate, rerror, gstate, feed, emitted>>

backend == <<profile, engine>>

vars == <<backend, app, builder, chat, handler, net, requests, second>>

(***************************************************************************)
(* Stacks.  The stack prop is null, a stack record of the backend, or a    *)
(* bare number.                                                            *)
(***************************************************************************)
StackIds == {1}

NoStack == [shape |-> "null", id |-> 0]

StackRecord(i) == [shape |-> "record", id |-> i]

BareId(i) == [shape |-> "number", id |-> i]

\* An id read off whatever the prop holds, a bare number too.
StackIdOfAny(stack) == stack.id

\* stack?.id: undefined (0 here) on null and on a number.
StackId(stack) == IF stack.shape = "record" THEN stack.id ELSE 0

\* The truth value of activeStack in "activeStack && <StackBuilder/>".
Truthy(stack) == stack.shape # "null"

BuilderShown == currentPage = "builder" /\ Truthy(activeStack)

(***************************************************************************)
(* Entries of the two displays.                                            *)
(***************************************************************************)
Msg(text, sender, temp) == [text |-> text, sender |-> sender, temp |-> temp]

AI(text) == Msg(text, "ai", FALSE)

Entry(role, content) == [role |-> role, content |-> content]

\* The filter left out: the list as it was.
WithoutTempKept(m) == m

\* m.filter((mm) => !mm.temp)
WithoutTemp(m) == SelectSeq(m, LAMBDA mm : ~mm.temp)

\* m.filter((mm) => mm.sender !== "ai")
WithoutAssistant(m) == SelectSeq(m, LAMBDA mm : mm.sender # "ai")

\* history.filter((m) => m.role !== "assistant")
WithoutAssistantEntry(h) == SelectSeq(h, LAMBDA m : m.role # "assistant")

\* The characters of a typed text as one string.
RECURSIVE Str(_)
Str(s) == IF s = <<>> THEN "" ELSE Head(s).v \o Str(Tail(s))

Ch(c) == Sym("ch", c)

\* What the user types into the ChatBox input.
Inputs == { <<>>, <<SP>>, <<SP, Ch("q"), SP>> }

\* What the query node holds when Run is clicked.
Queries == { "", "q" }

(***************************************************************************)
(* ChatBox.handleSend: what one parsed event, one line, and the remainder  *)
(* do.  c is [messages, assistant, dispatched, parsed].                    *)
(***************************************************************************)
Parsed(ev) == [type |-> ev.type, message |-> ev.message]

\* A handler that shows the newest token in place of the text so far.
ChatEventNewest(c, ev) ==
    IF ev.type = "token"
    THEN [c EXCEPT !.assistant = ToStr(ev.message),
                   !.messages = Append(WithoutAssistant(@), AI(ToStr(ev.message)))]
    ELSE IF ev.type = "output"
    THEN [c EXCEPT !.messages = Append(WithoutAssistant(@), AI(ev.message))]
    ELSE IF ev.type = "error"
    THEN [c EXCEPT !.messages = Append(@, AI(Cross \o ToStr(ev.message)))]
    ELSE c

\* A handler that shows every event it does not know as a bubble.
ChatEventShowAll(c, ev) ==
    IF ev.type = "token"
    THEN LET text == c.assistant \o ToStr(ev.message) IN
         [c EXCEPT !.assistant = text,
                   !.messages = Append(WithoutAssistant(@), AI(text))]
    ELSE IF ev.type = "output"
    THEN [c EXCEPT !.messages = Append(WithoutAssistant(@), AI(ev.message))]
    ELSE IF ev.type = "error"
    THEN [c EXCEPT !.messages = Append(@, AI(Cross \o ToStr(ev.message)))]
    ELSE [c EXCEPT !.messages = Append(@, AI(ToStr(ev.message)))]

\* A handler that puts the final output behind the tokens streamed so far.
ChatEventOutputAppended(c, ev) ==
    IF ev.type = "token"
    THEN LET text == c.assistant \o ToStr(ev.message) IN
         [c EXCEPT !.assistant = text,
                   !.messages = Append(WithoutAssistant(@), AI(text))]
    ELSE IF ev.type = "output"
    THEN [c EXCEPT !.messages = Append(WithoutAssistant(@),
                                       AI(c.assistant \o ToStr(ev.message)))]
    ELSE IF ev.type = "error"
    THEN [c EXCEPT !.messages = Append(@, AI(Cross \o ToStr(ev.message)))]
    ELSE c

ChatEvent(c, ev) ==
    IF ev.type = "token"
    THEN LET text == c.assistant \o ToStr(ev.message) IN
         [c EXCEPT !.assistant = text,
                   !.messages = Append(WithoutAssistant(@), AI(text))]
    ELSE IF ev.type = "output"
    THEN [c EXCEPT !.messages = Append(WithoutAssistant(@), AI(ev.message))]
    ELSE IF ev.type = "error"
    THEN [c EXCEPT !.messages = Append(@, AI(Cross \o ToStr(ev.message)))]
    ELSE c

ChatLine(c, line) ==
    LET trimmed == Trim(line) IN
    IF trimmed = <<>> THEN c
    ELSE LET ev == JSONParse(trimmed) IN
         IF ev.ok
         THEN ChatEvent([c EXCEPT !.dispatched = Append(@, Parsed(ev)),
                                  !.parsed = Append(@, line)], ev)
         ELSE [c EXCEPT !.parsed = Append(@, line)]

\* A loop that is left at the first line JSON.parse rejects.
RECURSIVE ChatPartsStrict(_, _)
ChatPartsStrict(c, parts) ==
    IF parts = <<>> THEN c
    ELSE IF Trim(Head(parts)) # <<>> /\ ~JSONParse(Trim(Head(parts))).ok THEN c
    ELSE ChatPartsStrict(ChatLine(c, Head(parts)), Tail(parts))

RECURSIVE ChatParts(_, _)
ChatParts(c, parts) ==
    IF parts = <<>> THEN c
    ELSE ChatParts(ChatLine(c, Head(parts)), Tail(parts))

ChatRemainder(c, rest) ==
    IF Trim(rest) = <<>> THEN c
    ELSE LET ev == JSONParse(rest) IN
         IF ev.ok /\ ev.type = "output"
         THEN [c EXCEPT !.dispatched = Append(@, Parsed(ev)),
                        !.messages = Append(WithoutAssistant(@), AI(ev.message))]
         ELSE c

(***************************************************************************)
(* StackBuilder.handleRun: the same three.  r is [history, assistant,      *)
(* dispatched]; old is outputNode.data.history of the closure.             *)
(***************************************************************************)
RunEvent(r, old, ev) ==
    IF ev.type = "token"
    THEN LET text == r.assistant \o ToStr(ev.message) IN
         [r EXCEPT !.assistant = text,
                   !.history = Append(WithoutAssistantEntry(old),
                                      Entry("assistant", text))]
    ELSE IF ev.type = "output"
    THEN [r EXCEPT !.history = Append(WithoutAssistantEntry(old),
                                      Entry("assistant", ev.message))]
    ELSE IF ev.type = "error"
    THEN [r EXCEPT !.history = Append(old, Entry("system", Cross \o ToStr(ev.message)))]
    ELSE r

RunLine(r, old, line) ==
    IF Trim(line) = <<>> THEN r
    ELSE LET ev == JSONParse(line) IN
         IF ev.ok
         THEN RunEvent([r EXCEPT !.dispatched = Append(@, Parsed(ev)),
                                 !.parsed = Append(@, line)], old, ev)
         ELSE [r EXCEPT !.parsed = Append(@, line)]

RECURSIVE RunParts(_, _, _)
RunParts(r, old, parts) ==
    IF parts = <<>> THEN r
    ELSE RunParts(RunLine(r, old, Head(parts)), old, Tail(parts))

RunRemainder(r, old, rest) ==
    IF Trim(rest) = <<>> THEN r
    ELSE LET ev == JSONParse(rest) IN
         IF ev.ok /\ ev.type = "output"
         THEN [r EXCEPT !.dispatched = Append(@, Parsed(ev)),
                        !.history = Append(WithoutAssistantEntry(old),
                                           Entry("assistant", ev.message))]
         ELSE r

(***************************************************************************)
(* The response body.  It ends after the newline of its last line, or      *)
(* after a last line that has no newline, or in the middle of its last     *)
(* line (the connection was cut before the closing brace).                 *)
(***************************************************************************)
Endings == {"newline", "open", "cut"}

EndingsOf(p) == IF p = "truncated" THEN Endings ELSE {"newline"}

\* How many execute requests one mounted StackBuilder page issues: a
\* conversation of several turns with the "turns" backend, one response
\* with the others.
MaxTurns == 2

RequestsOf(p) == IF p = "turns" THEN MaxTurns ELSE 1

SeqsUpTo(S, n) == UNION { [1..k -> S] : k \in 0..n }

RECURSIVE BodyText(_, _)
BodyText(lines, end) ==
    IF lines = <<>> THEN <<>>
    ELSE IF Len(lines) > 1
    THEN LineText(Head(lines)) \o <<NL>> \o BodyText(Tail(lines), end)
    ELSE CASE end = "newline" -> Append(LineText(Head(lines)), NL)
           [] end = "open"    -> LineText(Head(lines))
           [] end = "cut"     -> Front(LineText(Head(lines)))

(***************************************************************************)
(* The state after construction: App on the home page with no stack; the   *)
(* StackBuilder and ChatBox state is what useState gives at mount.         *)
(***************************************************************************)
\* No second handleRun.
NoSecond ==
    [pc |-> "none", snap |-> <<>>, buffer |-> <<>>, held |-> <<>>, assistant |-> "",
     sent |-> <<>>, wire |-> <<>>]

\* The browser before any click.
PageLoaded ==
    /\ currentPage = "home"
    /\ activeStack = NoStack
    /\ alert = ""
    /\ chatOpen = FALSE
    /\ history = <<>>
    /\ messages = <<>>
    /\ input = <<>>
    /\ running = FALSE
    /\ client = "none"
    /\ pc = "idle"
    /\ snap = <<>>
    /\ buffer = <<>>
    /\ held = <<>>
    /\ assistant = ""
    /\ dispatched = <<>>
    /\ parsed = <<>>
    /\ sent = <<>>
    /\ ending = "newline"
    /\ complete = 0
    /\ wire = <<>>
    /\ requests = 0
    /\ second = NoSecond

\* No graph handed to the resolver.
NoGraph == [n |-> 0, role |-> <<>>, next |-> <<>>]

ResolverIdle ==
    /\ graph = NoGraph
    /\ path = <<>>
    /\ rstate = "idle"
    /\ rerror = ""

StreamerIdle ==
    /\ gstate = "idle"
    /\ feed = <<>>
    /\ emitted = <<>>

InitOf(p) ==
    /\ profile = p
    /\ ResolverIdle
    /\ StreamerIdle
    /\ PageLoaded

Init == InitOf("contract")

InitTruncated == InitOf("truncated")

InitLoose == InitOf("loose")

\* The locals of a handler that has returned or whose component is gone.
ResetHandler ==
    /\ snap' = <<>>
    /\ buffer' = <<>>
    /\ held' = <<>>
    /\ assistant' = ""
    /\ dispatched' = <<>>
    /\ parsed' = <<>>

ResetNet ==
    /\ sent' = <<>>
    /\ ending' = "newline"
    /\ complete' = 0
    /\ wire' = <<>>

\* ChatBox is mounted.
MountChat ==
    /\ messages' = <<>>
    /\ input' = <<>>
    /\ running' = FALSE

\* StackBuilder is unmounted or mounted anew: its state, the ChatBox state
\* and whatever a handler of the old page was doing are gone.
Remount ==
    /\ chatOpen' = FALSE
    /\ history' = <<>>
    /\ requests' = 0
    /\ second' = NoSecond
    /\ MountChat
    /\ client' = "none"
    /\ pc' = "idle"
    /\ ResetHandler
    /\ ResetNet

\* window.alert blocks the page until it is dismissed.
Free == alert = ""

\* A handler is between its fetch and its return.  This specification has
\* one response in flight at a time: handleSend writes messages only and
\* handleRun history only.
InFlight == pc \in {"fetching", "reading", "done"}

(***************************************************************************)
(* App.js, Home.js, NewStack.js: navigation.                               *)
(***************************************************************************)
\* Home.js:61  onClick={() => onOpenStack(stack.id)}
CardArgument(s) == BareId(s.id)

\* The ChatBox modal covers the whole window (fixed inset-0), so the navbar
\* and the builder's buttons are reached only while it is closed.
Reachable == Free /\ ~(BuilderShown /\ chatOpen)

\* Navbar "My Stacks" (App.js:49) and NewStack's Cancel (App.js:90).
NavHome ==
    /\ Reachable
    /\ currentPage # "home"
    /\ currentPage' = "home"
    /\ UNCHANGED <<backend, activeStack, alert>>
    /\ Remount

\* Navbar "New Stack" (App.js:57) and Home's "+ New Stack" (App.js:78).
NavNewStack ==
    /\ Reachable
    /\ currentPage # "newstack"
    /\ currentPage' = "newstack"
    /\ UNCHANGED <<backend, activeStack, alert>>
    /\ Remount

\* An onOpenStack that switches the page and leaves the stack as it was.
HomeOpenStackPageOnly ==
    /\ Reachable
    /\ currentPage = "home"
    /\ currentPage' = "builder"
    /\ UNCHANGED <<backend, activeStack, alert>>
    /\ Remount

\* A click on the card of a stack the backend listed.
HomeOpenStack ==
    /\ Reachable
    /\ currentPage = "home"
    /\ \E i \in StackIds : activeStack' = CardArgument(StackRecord(i))
    /\ currentPage' = "builder"
    /\ UNCHANGED <<backend, alert>>
    /\ Remount

\* NewStack.handleSubmit with a name, answered by the stack the backend made.
NewStackCreate ==
    /\ Reachable
    /\ currentPage = "newstack"
    /\ \E i \in StackIds : activeStack' = StackRecord(i)
    /\ currentPage' = "builder"
    /\ UNCHANGED <<backend, alert>>
    /\ Remount

\* App.saveStack: the POST is answered and the alert is shown, or it fails.
\* (Save and Save Stack are taken while no response is in flight: they read
\* and write nothing a handler uses, and their alert would only hold it up.)
AppSaveStack ==
    /\ Reachable
    /\ ~InFlight
    /\ currentPage = "builder"
    /\ Truthy(activeStack)
    /\ alert' \in {"Stack saved: name", "Failed to save stack"}
    /\ UNCHANGED <<backend, currentPage, activeStack, builder, chat, handler, net, requests, second>>

\* The alert is dismissed; after "Stack saved" saveStack goes on to home.
DismissAlert ==
    /\ alert # ""
    /\ alert' = ""
    /\ UNCHANGED <<backend, activeStack>>
    /\ IF alert = "Stack saved: name"
       THEN currentPage' = "home" /\ Remount
       ELSE UNCHANGED <<currentPage, builder, chat, handler, net, requests, second>>

(***************************************************************************)
(* StackBuilder: Save and the chat button.                                 *)
(***************************************************************************)
\* handleSave
BuilderSave ==
    /\ Reachable
    /\ ~InFlight
    /\ BuilderShown
    /\ alert' = IF StackId(activeStack) = 0
                THEN "Cannot save - stack ID missing!"
                ELSE "Stack saved!"
    /\ UNCHANGED <<backend, currentPage, activeStack, builder, chat, handler, net, requests, second>>

\* setChatOpen(true): ChatBox is mounted.
OpenChat ==
    /\ Reachable
    /\ ~InFlight
    /\ BuilderShown
    /\ chatOpen' = TRUE
    /\ MountChat
    /\ UNCHANGED <<backend, app, history, handler, net, requests, second>>

\* onClose: ChatBox is unmounted, and with it whatever handleSend was doing.
CloseChat ==
    /\ Free
    /\ BuilderShown
    /\ chatOpen
    /\ chatOpen' = FALSE
    /\ MountChat
    /\ client' = "none"
    /\ pc' = "idle"
    /\ ResetHandler
    /\ ResetNet
    /\ UNCHANGED <<backend, app, history, requests, second>>

(***************************************************************************)
(* ChatBox.handleSend up to the fetch.                                     *)
(***************************************************************************)
\* An input and a Send button that are never disabled.
NeverDisabled == FALSE

\* disabled={running} on the input and on the Send button.
SendDisabled == running

\* onChange of the input, which is disabled while running.  (Typing waits
\* for a handler that has read its stream to return.)
ChatType ==
    /\ Free
    /\ BuilderShown
    /\ chatOpen
    /\ ~SendDisabled
    /\ pc # "done"
    /\ ~(client = "run" /\ InFlight)
    /\ \E v \in Inputs : v # input /\ input' = v
    /\ UNCHANGED <<backend, app, builder, messages, running, handler, net, requests, second>>

\* Send, or Enter: handleSend from its first line to "await fetch".
ChatSend ==
    /\ Free
    /\ BuilderShown
    /\ chatOpen
    /\ ~SendDisabled
    /\ ~(client = "run" /\ InFlight)
    /\ LET text == Trim(input) IN
       IF text = <<>>
       THEN UNCHANGED vars
       ELSE IF StackId(activeStack) = 0
       THEN /\ alert' = "Please save the stack first (it needs an id)."
            /\ UNCHANGED <<backend, currentPage, activeStack, builder, chat,
                           handler, net, requests, second>>
       ELSE /\ requests < RequestsOf(profile)
            /\ input' = <<>>
            /\ messages' = messages \o <<Msg(Str(text), "user", FALSE),
                                         Msg(Ellipsis, "ai", TRUE)>>
            /\ running' = TRUE
            /\ client' = "chat"
            /\ pc' = "fetching"
            /\ snap' = messages
            /\ buffer' = <<>>
            /\ held' = <<>>
            /\ assistant' = ""
            /\ dispatched' = <<>>
            /\ parsed' = <<>>
            /\ ResetNet
            /\ requests' = requests + 1
            /\ UNCHANGED second
            /\ UNCHANGED <<backend, app, builder>>

(***************************************************************************)
(* StackBuilder.handleRun up to the fetch.                                 *)
(***************************************************************************)
\* Run, with q in the query node: the closure holds the nodes of the render
\* the click came from.
Run ==
    /\ Reachable
    /\ ~InFlight
    /\ BuilderShown
    /\ \E q \in Queries :
       IF q = ""
       THEN /\ alert' = "Please enter a query in User Query node."
            /\ UNCHANGED <<backend, currentPage, activeStack, builder, chat,
                           handler, net, requests, second>>
       ELSE /\ requests < RequestsOf(profile)
            /\ history' = Append(history, Entry("user", q))
            /\ client' = "run"
            /\ pc' = "fetching"
            /\ snap' = history
            /\ buffer' = <<>>
            /\ held' = <<>>
            /\ assistant' = ""
            /\ dispatched' = <<>>
            /\ parsed' = <<>>
            /\ ResetNet
            /\ requests' = requests + 1
            /\ UNCHANGED second
            /\ UNCHANGED <<backend, app, chatOpen, chat>>

(***************************************************************************)
(* The answer to the fetch.                                                *)
(***************************************************************************)
\* A handler returns without having read the body to its end, showing text.
Fails(text) ==
    /\ pc' = "failed"
    /\ IF client = "chat"
       THEN /\ messages' = Append(WithoutTemp(messages), AI(Cross \o text))
            /\ running' = FALSE
            /\ UNCHANGED <<input, history>>
       ELSE /\ history' = Append(snap, Entry("system", Cross \o text))
            /\ UNCHANGED chat
    /\ ResetHandler
    /\ ResetNet
    /\ UNCHANGED <<backend, app, chatOpen, client, requests, second>>

\* The catch block of either handler, and ChatBox's finally.
Caught ==
    Fails(IF client = "chat" THEN "Error contacting backend" ELSE "Error running stack")

\* fetch rejects: the backend cannot be reached.
FetchRejects ==
    /\ Free
    /\ pc = "fetching"
    /\ Caught

\* resp.ok is false; the text shown is the detail of the body.
RespondNotOk ==
    /\ Free
    /\ pc = "fetching"
    /\ Fails(IF client = "chat" THEN "detail" ELSE "Exec error: detail")

\* resp.ok and no resp.body: ChatBox says so; handleRun's getReader throws
\* and its catch block runs.
RespondNoBody ==
    /\ Free
    /\ pc = "fetching"
    /\ Fails(IF client = "chat" THEN "No streaming body from server"
             ELSE "Error running stack")

\* resp.ok with a body: the reader, the decoder, the empty buffer and text;
\* ChatBox takes its placeholder away.  The body is what the backend writes
\* into this response; it executes only a request that names its stack
\* (README, POST /execute).
RespondOk ==
    /\ Free
    /\ pc = "fetching"
    /\ StackId(activeStack) # 0
    /\ pc' = "reading"
    /\ buffer' = <<>>
    /\ held' = <<>>
    /\ assistant' = ""
    /\ messages' = IF client = "chat" THEN WithoutTemp(messages) ELSE messages
    /\ \E lines \in SeqsUpTo(LinesOf(profile), MaxLines), end \in EndingsOf(profile) :
        /\ lines = <<>> => end = "newline"
        /\ sent' = lines
        /\ ending' = end
        /\ wire' = UTF8(BodyText(lines, end))
    /\ complete' = 0
    /\ UNCHANGED <<backend, app, builder, input, running, client, snap, dispatched, parsed,
                   requests, second>>

(***************************************************************************)
(* The read loop.                                                          *)
(***************************************************************************)
Newlines(bytes) == Len(SelectSeq(bytes, LAMBDA b : b = NL))

\* The loop body on one value read, from the state st = [buffer, held,
\* messages, history, assistant, dispatched, parsed] of the handler of who.
LoopBody(who, old, st, value) ==
    LET dec   == Decode(st.held, value)
        parts == Split(st.buffer \o dec.text)
        after == IF who = "chat"
                 THEN ChatParts([messages |-> st.messages, assistant |-> st.assistant,
                                 dispatched |-> st.dispatched, parsed |-> st.parsed],
                                Front(parts))
                 ELSE RunParts([history |-> st.history, assistant |-> st.assistant,
                                dispatched |-> st.dispatched, parsed |-> st.parsed],
                               old, Front(parts))
    IN  [buffer     |-> Last(parts),
         held       |-> dec.held,
         messages   |-> IF who = "chat" THEN after.messages ELSE st.messages,
         history    |-> IF who = "chat" THEN st.history ELSE after.history,
         assistant  |-> after.assistant,
         dispatched |-> after.dispatched,
         parsed     |-> after.parsed]

\* The end of the stream: the remainder.
AfterLoop(who, old, st) ==
    LET after == IF who = "chat"
                 THEN ChatRemainder([messages |-> st.messages, assistant |-> st.assistant,
                                     dispatched |-> st.dispatched], st.buffer)
                 ELSE RunRemainder([history |-> st.history, assistant |-> st.assistant,
                                    dispatched |-> st.dispatched], old, st.buffer)
    IN  [st EXCEPT !.messages = IF who = "chat" THEN after.messages ELSE @,
                   !.history = IF who = "chat" THEN @ ELSE after.history,
                   !.dispatched = after.dispatched]

Locals ==
    [buffer |-> buffer, held |-> held, messages |-> messages, history |-> history,
     assistant |-> assistant, dispatched |-> dispatched, parsed |-> parsed]

\* reader.read() gives the next n bytes, and the loop body runs on them.
ReadChunk ==
    /\ Free
    /\ pc = "reading"
    /\ \E n \in 1..Len(wire) :
        \E st \in {LoopBody(client, snap, Locals, SubSeq(wire, 1, n))} :
            /\ wire' = SubSeq(wire, n + 1, Len(wire))
            /\ complete' = complete + Newlines(SubSeq(wire, 1, n))
            /\ held' = st.held
            /\ buffer' = st.buffer
            /\ messages' = st.messages
            /\ history' = st.history
            /\ assistant' = st.assistant
            /\ dispatched' = st.dispatched
            /\ parsed' = st.parsed
    /\ UNCHANGED <<backend, app, chatOpen, input, running, client, pc, snap,
                   sent, ending, requests, second>>

\* reader.read() gives done: the remainder, and the handler returns.
ReadEnd ==
    /\ Free
    /\ pc = "reading"
    /\ wire = <<>>
    /\ pc' = "done"
    /\ \E st \in {AfterLoop(client, snap, Locals)} :
            /\ messages' = st.messages
            /\ history' = st.history
            /\ dispatched' = st.dispatched
    /\ running' = IF client = "chat" THEN FALSE ELSE running
    /\ UNCHANGED <<backend, app, chatOpen, input, client, snap, buffer, held,
                   assistant, parsed, net, requests, second>>

\* The handler returns: its locals are gone.
Return ==
    /\ pc = "done"
    /\ pc' = "returned"
    /\ ResetHandler
    /\ ResetNet
    /\ UNCHANGED <<backend, app, builder, chat, client, requests, second>>

\* reader.read() rejects: the connection broke.
ReadRejects ==
    /\ Free
    /\ pc = "reading"
    /\ wire # <<>>
    /\ Caught

Next ==
    \/ NavHome
    \/ NavNewStack
    \/ HomeOpenStack
    \/ NewStackCreate
    \/ AppSaveStack
    \/ DismissAlert
    \/ BuilderSave
    \/ OpenChat
    \/ CloseChat
    \/ ChatType
    \/ ChatSend
    \/ Run
    \/ FetchRejects
    \/ RespondNotOk
    \/ RespondNoBody
    \/ RespondOk
    \/ ReadChunk
    \/ ReadEnd
    \/ Return
    \/ ReadRejects

\* The backend keeps the contract.
Spec == Init /\ [][Next]_vars

\* The backend keeps the contract and the body may end early.
SpecTruncated == InitTruncated /\ [][Next]_vars

\* The backend also writes lines that are outside the contract.
SpecLoose == InitLoose /\ [][Next]_vars

InitTurns == InitOf("turns")

\* A conversation of several turns on one mounted page.
SpecTurns == InitTurns /\ [][Next]_vars

(***************************************************************************)
(* Run clicked again while the response of the run before is in flight:    *)
(* the Run button is never disabled.  The second call of handleRun has its *)
(* own closure and locals; the nodes state is the one both write.          *)
(***************************************************************************)
InitOverlap == InitOf("overlap")

\* handleRun up to the fetch, with r in the query node.
RunAgain ==
    /\ Reachable
    /\ BuilderShown
    /\ client = "run"
    /\ pc = "reading"
    /\ second.pc = "none"
    /\ history' = Append(history, Entry("user", "r"))
    /\ second' = [NoSecond EXCEPT !.pc = "fetching", !.snap = history]
    /\ UNCHANGED <<backend, app, chatOpen, chat, handler, net, requests>>

\* Its fetch is answered with a body.
RespondOkAgain ==
    /\ Free
    /\ second.pc = "fetching"
    /\ \E lines \in SeqsUpTo(LinesOf(profile), MaxLines) :
          second' = [second EXCEPT !.pc = "reading", !.sent = lines,
                                   !.wire = UTF8(BodyText(lines, "newline"))]
    /\ UNCHANGED <<backend, app, builder, chat, handler, net, requests>>

\* Its reader.read() gives the next n bytes.
ReadChunkAgain ==
    /\ Free
    /\ second.pc = "reading"
    /\ \E n \in 1..Len(second.wire) :
        \E st \in {LoopBody("run", second.snap,
                            [buffer |-> second.buffer, held |-> second.held,
                             messages |-> messages, history |-> history,
                             assistant |-> second.assistant,
                             dispatched |-> <<>>, parsed |-> <<>>],
                            SubSeq(second.wire, 1, n))} :
            /\ history' = st.history
            /\ second' = [second EXCEPT !.buffer = st.buffer, !.held = st.held,
                                        !.assistant = st.assistant,
                                        !.wire = SubSeq(second.wire, n + 1, Len(second.wire))]
    /\ UNCHANGED <<backend, app, chatOpen, chat, handler, net, requests>>

\* Its reader.read() gives done.
ReadEndAgain ==
    /\ Free
    /\ second.pc = "reading"
    /\ second.wire = <<>>
    /\ \E st \in {AfterLoop("run", second.snap,
                            [buffer |-> second.buffer, held |-> second.held,
                             messages |-> messages, history |-> history,
                             assistant |-> second.assistant,
                             dispatched |-> <<>>, parsed |-> <<>>])} :
            history' = st.history
    /\ second' = [second EXCEPT !.pc = "done"]
    /\ UNCHANGED <<backend, app, chatOpen, chat, handler, net, requests>>

NextOverlap ==
    \/ Next
    \/ RunAgain
    \/ RespondOkAgain
    \/ ReadChunkAgain
    \/ ReadEndAgain

\* Two runs of one StackBuilder page may overlap.
SpecOverlap == InitOverlap /\ [][NextOverlap]_vars

(***************************************************************************)
(* The engine behind POST /execute: the Graph Model and the Path Resolver. *)
(* A graph has the nodes 1..n, a role for each, and for each node the      *)
(* target of its outgoing edge, 0 when it has none: pipelines are linear   *)
(* chains, a node has at most one outgoing edge.                           *)
(***************************************************************************)
MaxNodes == 3

Roles == {"input", "generation", "output"}

Graphs ==
    UNION {[n : {k}, role : [1..k -> Roles], next : [1..k -> 0..k]] : k \in 1..MaxNodes}

\* Lookup by role: zero, one or many node ids.
ByRole(g, r) == {i \in 1..g.n : g.role[i] = r}

\* Adjacency: the targets of the outgoing edges of node i.
Outgoing(g, i) == IF g.next[i] = 0 THEN {} ELSE {g.next[i]}

\* The check on the two endpoints: "" when there is exactly one of each.
EndpointError(g) ==
    IF ByRole(g, "input") = {} THEN "missing input node"
    ELSE IF Cardinality(ByRole(g, "input")) > 1 THEN "ambiguous input node"
    ELSE IF ByRole(g, "output") = {} THEN "missing output node"
    ELSE IF Cardinality(ByRole(g, "output")) > 1 THEN "ambiguous output node"
    ELSE ""

\* A resolver that never counts the nodes.
NeverTooLong(g, p) == FALSE

\* One more node would make the path longer than the graph has nodes.
TooLong(g, p) == Len(p) + 1 > g.n

\* A resolver that takes the path as resolved wherever it stands.
ArrivedAnywhere(g, p) == TRUE

\* The path has reached the output node.
Arrived(g, p) == p[Len(p)] \in ByRole(g, "output")

InitResolver ==
    /\ profile = "resolver"
    /\ PageLoaded
    /\ StreamerIdle
    /\ graph \in Graphs
    /\ path = <<>>
    /\ rstate = "idle"
    /\ rerror = ""

Aside == UNCHANGED <<profile, app, builder, chat, handler, net, requests, second>>

\* A missing or ambiguous endpoint is a StructuralError.
ResolveRejects ==
    /\ rstate = "idle"
    /\ EndpointError(graph) # ""
    /\ rstate' = "failed"
    /\ rerror' = EndpointError(graph)
    /\ UNCHANGED <<graph, path, gstate, feed, emitted>>
    /\ Aside

\* The path starts at the input node.
ResolveStart ==
    /\ rstate = "idle"
    /\ EndpointError(graph) = ""
    /\ rstate' = "walking"
    /\ path' = <<CHOOSE i \in ByRole(graph, "input") : TRUE>>
    /\ UNCHANGED <<graph, rerror, gstate, feed, emitted>>
    /\ Aside

\* The output node is reached.
Arrive ==
    /\ rstate = "walking"
    /\ Arrived(graph, path)
    /\ rstate' = "resolved"
    /\ UNCHANGED <<graph, path, rerror, gstate, feed, emitted>>
    /\ Aside

\* No outgoing edge before the output node.
DeadEnd ==
    /\ rstate = "walking"
    /\ ~Arrived(graph, path)
    /\ Outgoing(graph, path[Len(path)]) = {}
    /\ rstate' = "failed"
    /\ rerror' = "output unreachable"
    /\ UNCHANGED <<graph, path, gstate, feed, emitted>>
    /\ Aside

\* Follow the single outgoing edge.
Follow ==
    /\ rstate = "walking"
    /\ ~Arrived(graph, path)
    /\ ~TooLong(graph, path)
    /\ \E t \in Outgoing(graph, path[Len(path)]) : path' = Append(path, t)
    /\ UNCHANGED <<graph, rstate, rerror, gstate, feed, emitted>>
    /\ Aside

\* A path longer than the node count indicates a cycle.
CycleDetected ==
    /\ rstate = "walking"
    /\ ~Arrived(graph, path)
    /\ Outgoing(graph, path[Len(path)]) # {}
    /\ TooLong(graph, path)
    /\ rstate' = "failed"
    /\ rerror' = "cycle detected"
    /\ UNCHANGED <<graph, path, gstate, feed, emitted>>
    /\ Aside

NextResolver ==
    \/ ResolveRejects
    \/ ResolveStart
    \/ Arrive
    \/ DeadEnd
    \/ Follow
    \/ CycleDetected

SpecResolver == InitResolver /\ [][NextResolver]_vars

(***************************************************************************)
(* The Generation Streamer.  The generative backend reports increments,    *)
(* completion, or a failure: an error payload, a malformed increment, or   *)
(* the connection ending with nothing more reported (a network failure).   *)
(* What the backend would report after the streamer has stopped stays in   *)
(* feed, unread.                                                           *)
(***************************************************************************)
MaxReports == 3

Increment(v) == [k |-> "increment", v |-> v]

Completion == [k |-> "complete", v |-> ""]

ErrorPayload == [k |-> "payload", v |-> "backend error"]

Malformed == [k |-> "malformed", v |-> "malformed increment"]

Reports == {Increment("x"), Increment("y"), Completion, ErrorPayload, Malformed}

\* What the streamer reads next: the head of the feed, or the network
\* failure of a feed that ends without completion.
NextReport(f) == IF f = <<>> THEN [k |-> "network", v |-> "network failure"] ELSE Head(f)

\* A streamer that reports a failure and leaves out the closing done.
TranslateNoDone(r) ==
    IF r.k = "increment" THEN <<[type |-> "token", message |-> r.v]>>
    ELSE IF r.k = "complete" THEN <<[type |-> "done", message |-> "Execution finished"]>>
    ELSE <<[type |-> "error", message |-> r.v]>>

\* The StreamEvents one report of the backend is translated to.
Translate(r) ==
    IF r.k = "increment" THEN <<[type |-> "token", message |-> r.v]>>
    ELSE IF r.k = "complete" THEN <<[type |-> "done", message |-> "Execution finished"]>>
    ELSE <<[type |-> "error", message |-> r.v],
           [type |-> "done", message |-> "Execution finished"]>>

InitStreamer ==
    /\ profile = "streamer"
    /\ PageLoaded
    /\ ResolverIdle
    /\ gstate = "idle"
    /\ feed \in SeqsUpTo(Reports, MaxReports)
    /\ emitted = <<>>

\* The backend is invoked in streaming mode.
StreamStart ==
    /\ gstate = "idle"
    /\ gstate' = "streaming"
    /\ UNCHANGED <<graph, path, rstate, rerror, feed, emitted>>
    /\ Aside

\* An increment becomes a token event.
EmitToken ==
    /\ gstate = "streaming"
    /\ NextReport(feed).k = "increment"
    /\ emitted' = emitted \o Translate(NextReport(feed))
    /\ feed' = Tail(feed)
    /\ UNCHANGED <<graph, path, rstate, rerror, gstate>>
    /\ Aside

\* Completion reported by the backend.
StreamComplete ==
    /\ gstate = "streaming"
    /\ NextReport(feed).k = "complete"
    /\ emitted' = emitted \o Translate(NextReport(feed))
    /\ feed' = Tail(feed)
    /\ gstate' = "completed"
    /\ UNCHANGED <<graph, path, rstate, rerror>>
    /\ Aside

\* Failure reported by the backend, or the connection lost.
StreamFail ==
    /\ gstate = "streaming"
    /\ NextReport(feed).k \in {"payload", "malformed", "network"}
    /\ emitted' = emitted \o Translate(NextReport(feed))
    /\ feed' = IF feed = <<>> THEN feed ELSE Tail(feed)
    /\ gstate' = "failed"
    /\ UNCHANGED <<graph, path, rstate, rerror>>
    /\ Aside

NextStreamer ==
    \/ StreamStart
    \/ EmitToken
    \/ StreamComplete
    \/ StreamFail

SpecStreamer == InitStreamer /\ [][NextStreamer]_vars

(***************************************************************************)
(* What the checks below speak of.                                         *)
(***************************************************************************)
\* The event a line of the contract carries.
EventOf(d) == [type |-> d.type, message |-> d.message]

EventsOf(lines) == [i \in 1..Len(lines) |-> EventOf(lines[i])]

\* The lines whose newline the client has read.
Received == SubSeq(sent, 1, complete)

\* The messages of the token events among lines, in order, as one text.
RECURSIVE TokenText(_)
TokenText(lines) ==
    IF lines = <<>> THEN ""
    ELSE (IF Head(lines).type = "token" THEN Head(lines).message ELSE "")
         \o TokenText(Tail(lines))

HasToken(lines) == \E i \in 1..Len(lines) : lines[i].type = "token"

Reading == pc \in {"reading", "done"}

\* The assistant entries of the output node.
AssistantEntries == SelectSeq(history, LAMBDA m : m.role = "assistant")

SystemEntries == SelectSeq(history, LAMBDA m : m.role = "system")

\* The one bubble, or the one assistant entry, holding text: what a reply
\* streamed so far looks like in either display, and nothing else from the
\* assistant beside it.
ShowsReply(text) ==
    IF client = "chat"
    THEN messages = <<Msg("q", "user", FALSE), AI(text)>>
    ELSE AssistantEntries = <<Entry("assistant", text)>> /\ SystemEntries = <<>>

\* Nothing from the assistant is on display.
ShowsNoReply ==
    IF client = "chat"
    THEN messages = <<Msg("q", "user", FALSE)>>
    ELSE AssistantEntries = <<>> /\ SystemEntries = <<>>

(***************************************************************************)
(* C1.  Round trip: whatever the chunks, the read loop of either handler   *)
(* parses and dispatches the events of the newline-terminated records it   *)
(* has received, each once and in the order written; at the end of the     *)
(* stream these are all the events of the body.                            *)
(***************************************************************************)
C1_RoundTrip ==
    Reading =>
        /\ dispatched = EventsOf(Received)
        /\ pc = "done" => complete = Len(sent)

C1_Witness ==
    /\ pc = "done"
    /\ client = "run"
    /\ Len(dispatched) = 3
    /\ dispatched[1] = [type |-> "token", message |-> "b"]
    /\ dispatched[2] = [type |-> "status", message |-> "s"]
    /\ dispatched[3] = [type |-> "done", message |-> "d"]

(***************************************************************************)
(* C2.  A body of a token record, a line that is no JSON and a token       *)
(* record gives the two token events in order: the bad line dispatches     *)
(* nothing, leaves the text and the display as the first token made them,  *)
(* and the record after it is still handled.                               *)
(***************************************************************************)
C2_Body ==
    /\ Len(sent) = 3
    /\ sent[1].kind = "event" /\ sent[1].type = "token"
    /\ sent[2].kind = "junk"
    /\ sent[3].kind = "event" /\ sent[3].type = "token"

C2_MalformedLineSkipped ==
    (Reading /\ C2_Body) =>
        CASE complete = 0 ->
                dispatched = <<>> /\ assistant = "" /\ ShowsNoReply
          [] complete \in {1, 2} ->
                /\ dispatched = <<EventOf(sent[1])>>
                /\ assistant = sent[1].message
                /\ ShowsReply(sent[1].message)
          [] complete = 3 ->
                /\ dispatched = <<EventOf(sent[1]), EventOf(sent[3])>>
                /\ assistant = sent[1].message \o sent[3].message
                /\ ShowsReply(sent[1].message \o sent[3].message)

C2_Witness ==
    /\ pc = "done"
    /\ C2_Body
    /\ client = "chat"
    /\ messages = <<Msg("q", "user", FALSE), AI("ab")>>

(***************************************************************************)
(* C3.  At the end of a stream whose last record has no newline, the       *)
(* record is emitted like the records of the loop, whatever its type.      *)
(***************************************************************************)
C3_RemainderEmitted ==
    (pc = "done" /\ ending = "open") => dispatched = EventsOf(sent)

(***************************************************************************)
(* C4.  After any prefix of the stream the assistant text is the messages  *)
(* of the token events received so far, in arrival order, whatever the     *)
(* chunks; and a body of token events followed by done ends with that text *)
(* as the one reply on display and no error entry.                         *)
(***************************************************************************)
C4_TokensThenDone ==
    /\ Len(sent) >= 2
    /\ sent[Len(sent)].type = "done"
    /\ \A i \in 1..(Len(sent) - 1) : sent[i].type = "token"

C4_AssistantTextIsTokensSoFar ==
    Reading =>
        /\ assistant = TokenText(Received)
        /\ (pc = "done" /\ C4_TokensThenDone) => ShowsReply(TokenText(sent))

C4_Witness ==
    /\ pc = "reading"
    /\ wire # <<>>
    /\ buffer # <<>>
    /\ complete = 2
    /\ assistant = "ba"

(***************************************************************************)
(* C5.  A record that is JSON and has no message field is skipped: it adds *)
(* nothing to the assistant text.                                          *)
(***************************************************************************)
C5_NoMessageSkipped ==
    (Reading /\ \A i \in 1..Len(sent) : sent[i].kind \in {"event", "nomsg"}) =>
        assistant = TokenText(SelectSeq(Received, LAMBDA d : d.kind = "event"))

(***************************************************************************)
(* C6.  A stream that ends without an output or an error event is flagged  *)
(* to the user as an error.                                                *)
(***************************************************************************)
\* The texts either handler puts behind its cross mark.
ErrorNotes ==
    {Cross \o t : t \in {"a", "b", "o", "e", "s", "c", "d", "f", "undefined", "detail",
                         "Exec error: detail", "Error contacting backend",
                         "Error running stack", "No streaming body from server"}}

Flagged ==
    \/ alert # ""
    \/ client = "chat" /\ \E i \in 1..Len(messages) :
            messages[i].sender = "ai" /\ messages[i].text \in ErrorNotes
    \/ client = "run" /\ SystemEntries # <<>>

C6_MissingTerminalFlagged ==
    (pc = "done" /\ \A i \in 1..Len(sent) : sent[i].type \notin {"output", "error"})
        => Flagged

(***************************************************************************)
(* C7.  A step of the read loop in which every record completed is a       *)
(* status, context or done event changes neither the chat messages nor the *)
(* history of the output node.                                             *)
(***************************************************************************)
QuietTypes == {"status", "context", "done"}

C7_QuietStep ==
    /\ pc = "reading"
    /\ pc' = "reading"
    /\ complete' > complete
    /\ \A i \in (complete + 1)..complete' : sent[i].type \in QuietTypes

C7_QuietEventsChangeNothing ==
    [][C7_QuietStep => UNCHANGED <<messages, history>>]_vars

C7_Witness ==
    /\ pc = "reading"
    /\ client = "chat"
    /\ Len(sent) = 3
    /\ sent[1].type = "token"
    /\ sent[2].type = "status"
    /\ sent[3].type = "context"
    /\ complete = 3
    /\ dispatched = EventsOf(sent)
    /\ messages = <<Msg("q", "user", FALSE), AI(sent[1].message)>>

(***************************************************************************)
(* C8.  A record of a kind the client does not know, or with a field       *)
(* beside type and message, never stops the stream: the unknown kind is    *)
(* parsed and changes nothing, the extra field is not looked at and the    *)
(* record is handled by its type, and the records after them are handled.  *)
(***************************************************************************)
C8_Body == \A i \in 1..Len(sent) : sent[i].kind \in {"event", "extra"}

C8_UnknownKindsAndFieldsTolerated ==
    (Reading /\ C8_Body) =>
        /\ dispatched = EventsOf(Received)
        /\ assistant = TokenText(Received)
        /\ IF HasToken(Received) THEN ShowsReply(TokenText(Received)) ELSE ShowsNoReply
        /\ pc = "done" => complete = Len(sent)

C8_Witness ==
    /\ pc = "done"
    /\ Len(sent) = 3
    /\ sent[1].type = "future"
    /\ sent[2].kind = "extra"
    /\ sent[3] = Event("token", "b")
    /\ assistant = "ab"
    /\ Len(dispatched) = 3

(***************************************************************************)
(* C9.  After token events, an error event and done, the display holds the *)
(* partial assistant text and, after it, a separate entry with the error   *)
(* message; the error message is no part of the assistant text.            *)
(***************************************************************************)
C9_Body ==
    /\ Len(sent) = 3
    /\ sent[1].type = "token"
    /\ sent[2].type = "error"
    /\ sent[3].type = "done"

C9_PartialTextThenError ==
    (pc = "done" /\ C9_Body) =>
        /\ assistant = sent[1].message
        /\ IF client = "chat"
           THEN messages = <<Msg("q", "user", FALSE), AI(sent[1].message),
                             AI(Cross \o sent[2].message)>>
           ELSE /\ AssistantEntries = <<Entry("assistant", sent[1].message)>>
                /\ SystemEntries = <<Entry("system", Cross \o sent[2].message)>>
                /\ history[Len(history)].role = "system"

(***************************************************************************)
(* C10.  The stack the builder is shown with is a record with an id,       *)
(* whichever page opened it, so neither the builder's Save nor the chat    *)
(* box raises its alert about a stack without an id.                       *)
(***************************************************************************)
C10_BuilderStackHasId ==
    /\ BuilderShown => StackId(activeStack) # 0
    /\ alert \notin {"Cannot save - stack ID missing!",
                     "Please save the stack first (it needs an id)."}

(***************************************************************************)
(* C11.  For a graph that is one simple chain from its one input node to   *)
(* its one output node the resolver ends with the whole chain in order;    *)
(* and every path it returns, for any graph, starts at the input node,     *)
(* ends at the output node, follows an edge at every step and repeats no   *)
(* node id.                                                                *)
(***************************************************************************)
Resolved == rstate \in {"resolved", "failed"}

\* c lists every node of g once, from the input node along the edges to the
\* output node, and g has no other edge.
IsChainOf(c, g) ==
    /\ Len(c) = g.n
    /\ \A i, j \in 1..g.n : i # j => c[i] # c[j]
    /\ ByRole(g, "input") = {c[1]}
    /\ ByRole(g, "output") = {c[g.n]}
    /\ \A i \in 1..(g.n - 1) : g.next[c[i]] = c[i + 1]
    /\ g.next[c[g.n]] = 0

ChainsOf(g) == {c \in [1..g.n -> 1..g.n] : IsChainOf(c, g)}

C11_ChainResolvedInOrder ==
    /\ (Resolved /\ ChainsOf(graph) # {}) =>
            rstate = "resolved" /\ path \in ChainsOf(graph)
    /\ rstate = "resolved" =>
            /\ path # <<>>
            /\ path[1] \in ByRole(graph, "input")
            /\ path[Len(path)] \in ByRole(graph, "output")
            /\ \A i \in 1..(Len(path) - 1) : path[i + 1] \in Outgoing(graph, path[i])
            /\ \A i, j \in 1..Len(path) : i # j => path[i] # path[j]

C11_Witness ==
    /\ rstate = "resolved"
    /\ graph.n = 3
    /\ ChainsOf(graph) # {}
    /\ Len(path) = 3
    /\ graph.role[path[2]] = "generation"

(***************************************************************************)
(* C12.  As claimed: a graph with one input node and one output node, from *)
(* whose input node a cycle can be reached, is resolved to the failure     *)
(* "cycle detected".                                                       *)
(***************************************************************************)
\* The node k edges after node i, 0 once the chain has ended.
RECURSIVE Walk(_, _, _)
Walk(g, i, k) ==
    IF k = 0 \/ i = 0 THEN i ELSE Walk(g, g.next[i], k - 1)

\* Following the edges from the input node never ends.
CycleReachable(g) ==
    /\ EndpointError(g) = ""
    /\ \A i \in ByRole(g, "input") : Walk(g, i, g.n) # 0

CycleBeforeOutput(g) ==
    /\ EndpointError(g) = ""
    /\ \A i \in ByRole(g, "input") :
          \A k \in 0..g.n : Walk(g, i, k) # 0 /\ Walk(g, i, k) \notin ByRole(g, "output")

TypesOf(evs) == [i \in 1..Len(evs) |-> evs[i].type]

OnlyTokens(evs) == \A i \in 1..Len(evs) : evs[i].type = "token"

C13_Shape ==
    CASE gstate = "idle" -> emitted = <<>>
      [] gstate = "streaming" -> OnlyTokens(emitted)
      [] gstate = "completed" ->
            /\ Len(emitted) >= 1
            /\ OnlyTokens(SubSeq(emitted, 1, Len(emitted) - 1))
            /\ emitted[Len(emitted)].type = "done"
      [] gstate = "failed" ->
            /\ Len(emitted) >= 2
            /\ OnlyTokens(SubSeq(emitted, 1, Len(emitted) - 2))
            /\ emitted[Len(emitted) - 1].type = "error"
            /\ emitted[Len(emitted)].type = "done"

C13_Step ==
    /\ C13_Shape /\ C13_Shape'
    /\ <<gstate, gstate'>> \in {<<"idle", "streaming">>, <<"streaming", "streaming">>,
                                <<"streaming", "completed">>, <<"streaming", "failed">>}
    /\ Len(emitted') >= Len(emitted)
    /\ SubSeq(emitted', 1, Len(emitted)) = emitted
    /\ (gstate = "streaming" /\ gstate' = "streaming") =>
          /\ feed # <<>>
          /\ emitted' = Append(emitted, [type |-> "token", message |-> Head(feed).v])
          /\ Head(feed).k = "increment"

C13_StreamerOrder == [][C13_Step]_vars

C13_Witness ==
    /\ gstate = "failed"
    /\ TypesOf(emitted) = <<"token", "error", "done">>
    /\ emitted[1].message = "x"
    /\ feed = <<Increment("y")>>

(***************************************************************************)
(* C14.  After each chunk the buffer of the read loop holds no newline and *)
(* is the text received so far behind the last newline received, empty     *)
(* when the chunk ended on a newline; the pieces before it that are not    *)
(* white space only were handed to the parser, each once and in order, and *)
(* the pieces of white space only were not.                                *)
(***************************************************************************)
\* The characters of text t that k bytes of its encoding hold in full.
RECURSIVE TextWithin(_, _)
TextWithin(t, k) ==
    IF t = <<>> THEN <<>>
    ELSE LET w == IF Wide(Head(t)) THEN 2 ELSE 1 IN
         IF w > k THEN <<>> ELSE <<Head(t)>> \o TextWithin(Tail(t), k - w)

\* The text received so far.
TextRead ==
    TextWithin(BodyText(sent, ending), Len(UTF8(BodyText(sent, ending))) - Len(wire))

\* The part of text t behind its last newline.
RECURSIVE AfterLastNL(_)
AfterLastNL(t) ==
    IF t = <<>> \/ t[Len(t)] = NL THEN <<>>
    ELSE Append(AfterLastNL(SubSeq(t, 1, Len(t) - 1)), t[Len(t)])

WhiteOnly(l) == \A j \in 1..Len(l) : IsTrimSpace(l[j])

C14_BufferIsOpenLine ==
    pc = "reading" =>
        /\ \A j \in 1..Len(buffer) : buffer[j] # NL
        /\ buffer = AfterLastNL(TextRead)
        /\ parsed = SelectSeq([i \in 1..complete |-> LineText(sent[i])],
                              LAMBDA l : ~WhiteOnly(l))

C14_Witness ==
    /\ pc = "reading"
    /\ client = "run"
    /\ complete = 2
    /\ sent[1].kind = "blank"
    /\ sent[2].kind = "nbsp"
    /\ Len(parsed) = 1
    /\ buffer # <<>>
    /\ held # <<>>

(***************************************************************************)
(* C15.  While handleRun reads its stream the user-query entry of the run  *)
(* stays in the history of the output node; and after token events the     *)
(* history is the entries from before the run, the user-query entry, and   *)
(* one assistant entry with the tokens received so far.                    *)
(***************************************************************************)
C15_TokensOnly ==
    /\ HasToken(Received)
    /\ \A i \in 1..complete : sent[i].type \in {"token", "status", "context"}

C15_RunKeepsUserQuery ==
    (client = "run" /\ Reading) =>
        /\ \E i \in 1..Len(history) : history[i] = Entry("user", "q")
        /\ C15_TokensOnly =>
              history = snap \o <<Entry("user", "q"),
                                  Entry("assistant", TokenText(Received))>>

(***************************************************************************)
(* C16.  Two overlapping runs do not disturb each other: when both streams *)
(* have ended, the history of the output node holds both queries, and an   *)
(* assistant reply for each run whose stream carried one.                  *)
(***************************************************************************)
HasReply(lines) == \E i \in 1..Len(lines) : lines[i].type \in {"token", "output"}

C16_OverlappingRunsIndependent ==
    (client = "run" /\ pc = "done" /\ second.pc = "done") =>
        /\ \E i \in 1..Len(history) : history[i] = Entry("user", "q")
        /\ \E i \in 1..Len(history) : history[i] = Entry("user", "r")
        /\ (HasReply(sent) /\ HasReply(second.sent)) => Len(AssistantEntries) = 2

(***************************************************************************)
(* C17.  Once an output event is processed, by ChatBox or by handleRun,    *)
(* the display holds exactly one assistant entry and its text is the       *)
(* message of the output event, whatever tokens came before it.            *)
(***************************************************************************)
Bubbles == SelectSeq(messages, LAMBDA m : m.sender = "ai")

C17_OutputReplacesReply ==
    (Reading /\ complete >= 1 /\ sent[complete].type = "output") =>
        IF client = "chat"
        THEN Bubbles = <<AI(sent[complete].message)>>
        ELSE AssistantEntries = <<Entry("assistant", sent[complete].message)>>

C17_Witness ==
    /\ pc = "reading"
    /\ client = "chat"
    /\ complete = 3
    /\ TypesOf(sent) = <<"token", "token", "output">>
    /\ assistant = "ab"
    /\ messages = <<Msg("q", "user", FALSE), AI("o")>>

(***************************************************************************)
(* C18.  running is true from before the fetch of handleSend until the     *)
(* handler finishes, and false again however it finishes; while it is true *)
(* the input stays as it is and no further execute request is started, so  *)
(* a ChatBox has at most one request in flight.                            *)
(***************************************************************************)
ChatInFlight == client = "chat" /\ pc \in {"fetching", "reading"}

ChatFinished == client = "chat" /\ pc \in {"done", "returned", "failed"}

C18_Flag ==
    /\ ChatInFlight => running
    /\ ChatFinished => ~running
    /\ running => ChatInFlight

C18_Step ==
    /\ C18_Flag /\ C18_Flag'
    /\ (requests' = requests + 1 /\ client' = "chat") => ~ChatInFlight /\ running'
    /\ (running /\ running') => (input' = input /\ requests' = requests)

C18_RunningGuardsRequest == [][C18_Step]_vars

C18_Witness ==
    /\ requests = 2
    /\ ChatInFlight
    /\ pc = "reading"
    /\ running
    /\ Len(messages) >= 3
    /\ messages[3] = Msg("q", "user", FALSE)

(***************************************************************************)
(* C19.  While ChatBox reads the stream of a request, the conversation as  *)
(* it stood when the request was sent (the user messages, assistant        *)
(* replies and error entries of the earlier turns) is still the head of    *)
(* the messages list, in the same order.                                   *)
(***************************************************************************)
C19_EarlierTurnsKept ==
    (client = "chat" /\ Reading) =>
        /\ Len(messages) >= Len(snap)
        /\ SubSeq(messages, 1, Len(snap)) = snap

(***************************************************************************)
(* C20.  The placeholder entry (temp: true) that handleSend appends when   *)
(* it starts a request is in the list only while the fetch is pending: it  *)
(* is gone once the body is being read, before any streamed event is       *)
(* applied, and whenever handleSend has finished and running is false      *)
(* again no entry of the list has temp set.                                *)
(***************************************************************************)
HasTemp == \E i \in 1..Len(messages) : messages[i].temp

C20_PlaceholderRemoved ==
    /\ (ChatFinished /\ ~running) => ~HasTemp
    /\ (client = "chat" /\ Reading) => ~HasTemp
    /\ (client = "chat" /\ pc = "fetching") =>
           /\ messages # <<>>
           /\ messages[Len(messages)] = Msg(Ellipsis, "ai", TRUE)
    /\ HasTemp => (client = "chat" /\ pc = "fetching" /\ running)

\* The second request of a conversation was refused by the backend: the
\* placeholders of both turns are gone, each turn shows its answer.
C20_Witness ==
    /\ requests = 2
    /\ client = "chat"
    /\ pc = "failed"
    /\ ~running
    /\ Len(messages) = 4
    /\ messages[2].sender = "ai"
    /\ messages[4] = AI(Cross \o "detail")

(***************************************************************************)
(* C21.  handleSend and handleRun decode the same stream identically:      *)
(* when either has read a body to its end, in whatever chunks it came, the *)
(* events it dispatched and the assistant text it accumulated are those    *)
(* the other handler's loop gives on that body.                            *)
(***************************************************************************)
Fresh ==
    [buffer |-> <<>>, held |-> <<>>, messages |-> <<>>, history |-> <<>>,
     assistant |-> "", dispatched |-> <<>>, parsed |-> <<>>]

\* The loop and remainder of who on a body that arrives in one chunk.
DecodeWhole(who, text) ==
    AfterLoop(who, <<>>, LoopBody(who, <<>>, Fresh, UTF8(text)))

Other(who) == IF who = "chat" THEN "run" ELSE "chat"

C21_HandlersDecodeAlike ==
    (pc = "done" /\ client \in {"chat", "run"}) =>
        \E o \in {DecodeWhole(Other(client), BodyText(sent, ending))} :
            /\ dispatched = o.dispatched
            /\ assistant = o.assistant

(***************************************************************************)
(* C22.  On a non-OK status the client reads no stream.  ChatBox puts one  *)
(* error message in the place of its placeholder and running is false;     *)
(* handleRun appends one system error entry to the history.  No event is   *)
(* dispatched and no assistant text is produced for the request.           *)
(***************************************************************************)
C22_NoStream ==
    /\ pc' = "failed"
    /\ dispatched = <<>> /\ dispatched' = <<>>
    /\ parsed' = <<>>
    /\ assistant' = ""
    /\ sent' = <<>> /\ wire' = <<>> /\ complete' = 0

C22_Chat ==
    /\ messages # <<>>
    /\ messages[Len(messages)] = Msg(Ellipsis, "ai", TRUE)
    /\ messages' = Append(Front(messages), AI(Cross \o "detail"))
    /\ ~running'
    /\ history' = history

C22_Run ==
    /\ history' = Append(history, Entry("system", Cross \o "Exec error: detail"))
    /\ messages' = messages

C22_Step ==
    RespondNotOk =>
        /\ C22_NoStream
        /\ client = "chat" => C22_Chat
        /\ client = "run" => C22_Run

C22_NotOkShowsOneError == [][C22_Step]_vars

(***************************************************************************)
(* C23.  handleSend starts nothing when its preconditions fail.  A ChatBox *)
(* request is issued only from a state whose input is not blank and whose  *)
(* stack is a record with an id.  While the input is blank no step changes *)
(* the messages or sets running.  The step that answers a stack without id *)
(* (the alert "Please save the stack first") issues no request and leaves  *)
(* the messages, running = false and the typed input as they were.         *)
(***************************************************************************)
Blank(s) == \A i \in 1..Len(s) : s[i] \in {SP, NBSP}

SaveFirst == "Please save the stack first (it needs an id)."

ChatRequestIssued == requests' = requests + 1 /\ client' = "chat"

C23_Step ==
    /\ ChatRequestIssued =>
           /\ ~Blank(input)
           /\ activeStack.shape = "record"
           /\ activeStack.id \in StackIds
    /\ (chatOpen /\ chatOpen' /\ ~running /\ Blank(input)) =>
           /\ ~ChatRequestIssued
           /\ messages' = messages
           /\ ~running'
    /\ (alert = "" /\ alert' = SaveFirst) =>
           /\ ~Blank(input)
           /\ activeStack.shape # "record"
           /\ requests' = requests
           /\ messages' = messages
           /\ ~running /\ ~running'
           /\ input' = input
           /\ UNCHANGED <<handler, net>>

C23_SendNeedsTextAndId == [][C23_Step]_vars

\* The alert is on screen: the stack is a bare number, the text typed is
\* still in the input, nothing was sent.
C23_Witness ==
    /\ alert = SaveFirst
    /\ chatOpen
    /\ activeStack.shape = "number"
    /\ Str(Trim(input)) = "q"
    /\ messages = <<>>
    /\ ~running
    /\ requests = 0

(***************************************************************************)
(* C24.  App's navigation.  currentPage is always home, newstack or        *)
(* builder; whenever it is builder, activeStack is not null, so the        *)
(* builder page is never blank; and every step that enters builder sets    *)
(* activeStack, in that same step, to the stack it was handed.             *)
(***************************************************************************)
Pages == {"home", "newstack", "builder"}

Handed == {StackRecord(i) : i \in StackIds} \cup {BareId(i) : i \in StackIds}

C24_Pages ==
    /\ currentPage \in Pages
    /\ currentPage = "builder" => activeStack # NoStack

C24_Step ==
    /\ C24_Pages
    /\ C24_Pages'
    /\ (currentPage # "builder" /\ currentPage' = "builder") =>
           /\ activeStack' \in Handed
           /\ currentPage = "home" => activeStack'.shape = "number"
           /\ currentPage = "newstack" => activeStack'.shape = "record"

C24_BuilderNeverBlank == [][C24_Step]_vars

\* Back in the builder by a card of the Home page, after a stack was
\* created, saved and the "Stack saved" alert sent App to the home page.
C24_Witness ==
    /\ currentPage = "builder"
    /\ activeStack = BareId(1)
    /\ alert = "Failed to save stack"

====
